---- MODULE Spec2Model ----
(***************************************************************************)
(* distrilock: the lock manager of the daemon (package core) and the wire  *)
(* enums of package api, as a state machine.                               *)
(*                                                                         *)
(* Two daemon processes ("A" and "B") serve the same lock directory.  Each *)
(* daemon has its own registry (knownResources, resourceAcquiredBy) and    *)
(* its own reader/writer mutex (knownResourcesLock).  The directory is     *)
(* shared: a path resolves to an inode, an open handle refers to an inode, *)
(* and the POSIX advisory lock of an inode is held by at most one process. *)
(* A process loses its lock on an inode when it unlocks it or closes any   *)
(* handle it has open on that inode.                                       *)
(*                                                                         *)
(* One session is one connection.  A session runs one handler at a time;   *)
(* handlers of different sessions interleave at every mutex acquisition    *)
(* and at every filesystem call.  Statements that only read or write what  *)
(* the held mutex protects are taken together with the mutex operation     *)
(* that precedes them.                                                     *)
(***************************************************************************)
EXTENDS Integers, Sequences, FiniteSets, TLC

\* ------------------------------------------------------------------ bounds

\* Inodes the shared directory can hold at once (linked, or unlinked but open).
MaxInodes == 3

\* ---------------------------------------------------- package api constants

VersionMajor == 0
VersionMinor == 1

invalidCommand == 0
Peek == 1
Acquire == 2
Release == 3
Verify == 4

invalidResult == 0
Failed == 1
Success == 2
BadRequest == 3
InternalError == 4

\* ------------------------------------------------------------- the universe

Daemons == {"A", "B"}
Sessions == {"a1", "a2", "b1"}
DaemonOf(s) == IF s \in {"a1", "a2"} THEN "A" ELSE "B"

\* Lock names are sequences of one-character strings.
L1 == <<"L", "1">>
L2 == <<"a", ".", "-">>
ValidNames == {L1, L2}
BadNames == {<<>>, <<"L", "_">>, <<".", ".", "/", "x">>}
\* Every name a request can carry.
LockNames == ValidNames \cup BadNames
\* Command bytes a request can carry: the five declared ones and one more.
CommandBytes == {0, 1, 2, 3, 4, 5}
\* (VersionMajor, VersionMinor) pairs a request can carry: the one of this
\* package, an older and a newer one, and the largest.
RequestVersions == {<<0, 1>>, <<0, 0>>, <<1, 0>>, <<255, 255>>}
\* The pair a client built with this package sends.
ClientVersions == {<<0, 1>>}

Inodes == 1..MaxInodes
NoFile == 0
\* An open file (*os.File) is told apart by the session whose handler opened
\* it and the lock name it was opened for.
Handles == Sessions \X LockNames
NoHandle == <<>>
Nobody == "nobody"
Unlocked == "unlocked"
Free == "free"

\* The text of a system error (err.Error()); its wording is the system's.
\* Where the code tells error numbers apart the text is the error's name.
SysErr == "system error"

\* validLockNameRx: ^[A-Za-z0-9.\-]+$
NameChars ==
    {"A","B","C","D","E","F","G","H","I","J","K","L","M","N","O","P","Q","R",
     "S","T","U","V","W","X","Y","Z",
     "a","b","c","d","e","f","g","h","i","j","k","l","m","n","o","p","q","r",
     "s","t","u","v","w","x","y","z",
     "0","1","2","3","4","5","6","7","8","9",".","-"}

\* validLockNameRx.MatchString(name), as a pattern that also lets "_" through
MatchWordChars(name) ==
    /\ Len(name) >= 1
    /\ \A k \in 1..Len(name) : name[k] \in NameChars \cup {"_"}

MatchString(name) ==
    /\ Len(name) >= 1
    /\ \A k \in 1..Len(name) : name[k] \in NameChars

\* -------------------------------------------------------------------- state

VARIABLES
    path,                \* the directory: lock name -> inode of <dir>/<name>.lck
    flock,               \* inode -> the process holding its advisory lock
    hino,                \* handle -> inode the open handle refers to
    knownResources,      \* daemon -> lock name -> handle
    resourceAcquiredBy,  \* handle -> session (each daemon holds its own handles)
    wlock,               \* daemon -> session holding knownResourcesLock for writing
    rlock,               \* daemon -> sessions holding knownResourcesLock for reading
    pc,                  \* session -> where its handler stands
    req,                 \* session -> the request being served
    f,                   \* session -> the handler's local f
    filesToDrop,         \* session -> ProcessDisconnect's local filesToDrop
    res,                 \* what the step just taken returned, and to whom
    granted,             \* session -> names it was answered Success for and has not given up
    log                  \* the last returns, kept when handlers run one at a time

vars == <<path, flock, hino, knownResources, resourceAcquiredBy, wlock, rlock,
          pc, req, f, filesToDrop, res, granted, log>>

fsVars == <<path, flock, hino>>
regVars == <<knownResources, resourceAcquiredBy>>
muVars == <<wlock, rlock>>

\* req of a session no request of which is being served.
NoReq == [cmd |-> invalidCommand, name |-> <<>>, vmaj |-> 0, vmin |-> 0,
          ver |-> <<0, 0>>]
\* res between returns: no handler has just returned.
NoRes == [kind |-> "none"]

InitState ==
    /\ path = [n \in LockNames |-> NoFile]
    /\ flock = [i \in Inodes |-> Unlocked]
    /\ hino = [h \in Handles |-> NoFile]
    /\ knownResources = [d \in Daemons |-> [n \in LockNames |-> NoHandle]]
    /\ resourceAcquiredBy = [h \in Handles |-> Nobody]
    /\ wlock = [d \in Daemons |-> Free]
    /\ rlock = [d \in Daemons |-> {}]
    /\ pc = [s \in Sessions |-> "idle"]
    /\ req = [s \in Sessions |-> NoReq]
    /\ f = [s \in Sessions |-> NoHandle]
    /\ filesToDrop = [s \in Sessions |-> {}]
    /\ res = NoRes
    /\ granted = [s \in Sessions |-> {}]

\* Handlers of different sessions run concurrently.
Init == InitState /\ log = [on |-> FALSE, ev |-> <<>>]

\* Handlers run one after the other, and the returns are remembered.
InitSeq == InitState /\ log = [on |-> TRUE, ev |-> <<>>]

\* ------------------------------------------------- the filesystem, as the OS

\* An inode is in use while a path names it or a handle is open on it.
FreeInodes ==
    {i \in Inodes :
        /\ \A n \in LockNames : path[n] # i
        /\ \A h \in Handles : hino[h] # i}

\* The handle the handler of s gets when it opens the file of n is a fresh
\* one: no earlier handle of s for n is open or referred to any more.
Fresh(h) ==
    /\ hino[h] = NoFile
    /\ resourceAcquiredBy[h] = Nobody
    /\ \A d \in Daemons : \A n \in LockNames : knownResources[d][n] # h
    /\ \A s \in Sessions : f[s] # h /\ h \notin filesToDrop[s]

Lowest(S) == CHOOSE x \in S : \A y \in S : x <= y

\* f.Close(): the handle is closed, and the process loses the advisory lock it
\* holds on the handle's inode (fcntl locks die with any close of the file).
HinoAfterClose(h) == [hino EXCEPT ![h] = NoFile]
FlockAfterClose(d, h) ==
    [i \in Inodes |-> IF i = hino[h] /\ flock[i] = d THEN Unlocked ELSE flock[i]]

\* os.OpenFile: "EIO" stands for any failure but ENOENT.  With O_CREATE a
\* missing file is created, which needs a free inode; without it a missing
\* file is ENOENT.
OpenOutcomes(h, n, create) ==
    IF path[n] = NoFile /\ ~create
    THEN {"ENOENT", "EIO"}
    ELSE IF ~Fresh(h) \/ (path[n] = NoFile /\ FreeInodes = {})
         THEN {"EIO"}
         ELSE {"ok", "EIO"}

OpenedInode(n) == IF path[n] = NoFile THEN Lowest(FreeInodes) ELSE path[n]

\* acquireLockDirect(f): a non-blocking exclusive lock of the whole file.  A
\* lock held by another process is reported as EAGAIN or as EACCES; a lock the
\* process holds itself is no obstacle.
AcquireLockDirectOutcomes(d, h) ==
    IF flock[hino[h]] \in {Unlocked, d}
    THEN {"ok", "EIO"}
    ELSE {"EAGAIN", "EACCES", "EIO"}

\* releaseLock(f): unlock of the whole file.
ReleaseLockOutcomes == {"ok", "EIO"}

FlockAfterLock(d, h) == [flock EXCEPT ![hino[h]] = d]
FlockAfterUnlock(d, h) ==
    [i \in Inodes |-> IF i = hino[h] /\ flock[i] = d THEN Unlocked ELSE flock[i]]

\* os.Remove(path)
RemoveOutcomes(n) == IF path[n] = NoFile THEN {"ENOENT"} ELSE {"ok", "EIO"}

\* The test with EAGAIN alone
ContendedOnlyEAGAIN(e) == e = "EAGAIN"

\* err.Error() of a failed f.Write: the *os.PathError names the call.
WriteErrorText(e) == "write: EIO"

\* err.Error() of a failed os.Remove: the *os.PathError names the call.
RemoveErrorText(e) == IF e = "ENOENT" THEN "remove: ENOENT" ELSE "remove: EIO"

\* e == syscall.EAGAIN || e == syscall.EACCES
Contended(e) == e \in {"EAGAIN", "EACCES"}

\* ------------------------------------------------------ knownResourcesLock

RLock(s) ==
    /\ wlock[DaemonOf(s)] = Free
    /\ rlock' = [rlock EXCEPT ![DaemonOf(s)] = @ \cup {s}]
    /\ UNCHANGED wlock

\* RLock, reads only, RUnlock: the mutex is free for reading and stays as it is.
RLockRUnlock(s) ==
    /\ wlock[DaemonOf(s)] = Free
    /\ UNCHANGED muVars

RUnlock(s) ==
    /\ rlock' = [rlock EXCEPT ![DaemonOf(s)] = @ \ {s}]
    /\ UNCHANGED wlock

Lock(s) ==
    /\ wlock[DaemonOf(s)] = Free
    /\ rlock[DaemonOf(s)] = {}
    /\ wlock' = [wlock EXCEPT ![DaemonOf(s)] = s]
    /\ UNCHANGED rlock

\* Lock, then Unlock before the step ends.
LockUnlock(s) ==
    /\ wlock[DaemonOf(s)] = Free
    /\ rlock[DaemonOf(s)] = {}
    /\ UNCHANGED muVars

Unlock(s) ==
    /\ wlock' = [wlock EXCEPT ![DaemonOf(s)] = Free]
    /\ UNCHANGED rlock

\* ----------------------------------------------------------------- returns

\* The LockResponse ProcessRequest returns to session s: the request's command
\* and lock name, the daemon's own version, and the handler's results.  fserr
\* notes whether a system call of the handler failed.
Response(s, cmd, name, result, reason, isLocked, fserr) ==
    [kind |-> "response", sess |-> s, cmd |-> cmd, name |-> name,
     vmaj |-> VersionMajor, vmin |-> VersionMinor,
     result |-> result, reason |-> reason, isLocked |-> isLocked, fserr |-> fserr]

\* The LockResponse built on r, the request as ProcessRequest keeps it in res
\* (res.LockRequest = req, then the version assignment).
ResponseOf(s, r, result, reason, isLocked, fserr) ==
    [Response(s, r.cmd, r.name, result, reason, isLocked, fserr)
       EXCEPT !.vmaj = r.vmaj, !.vmin = r.vmin]

\* What the log holds after the return r: the return before it, and r.
Logged(r) ==
    IF ~log.on THEN log
    ELSE [log EXCEPT !.ev = IF Len(@) < 2 THEN Append(@, r)
                            ELSE Append(Tail(@), r)]

\* A step that returns nothing to anybody.
Quiet == res' = NoRes /\ UNCHANGED log

Returned(r) == res' = r /\ log' = Logged(r)

\* The handler returns: ProcessRequest fills the response and the session is
\* ready for its next request.
ReturnFull(s, result, reason, isLocked, fserr) ==
    /\ Returned(ResponseOf(s, req[s], result, reason, isLocked, fserr))
    /\ pc' = [pc EXCEPT ![s] = "idle"]
    /\ req' = [req EXCEPT ![s] = NoReq]
    /\ f' = [f EXCEPT ![s] = NoHandle]

Return(s, result, reason) == ReturnFull(s, result, reason, FALSE, FALSE)
ReturnErr(s) == ReturnFull(s, InternalError, SysErr, FALSE, TRUE)

\* panic("BUG: missing resource acquired by record"): the daemon process dies.
Panic(s) ==
    /\ pc' = [pc EXCEPT ![s] = "panic"]
    /\ Returned([kind |-> "panic", sess |-> s])
    /\ UNCHANGED <<req, f>>

Panicked(d) == \E s \in Sessions : DaemonOf(s) = d /\ pc[s] = "panic"

\* Session s may take a step: a daemon that panicked runs no more, and when
\* handlers run one at a time, s moves only while every other session is idle.
Runs(s) ==
    /\ ~Panicked(DaemonOf(s))
    /\ log.on => \A t \in Sessions \ {s} : pc[t] = "idle"


\* ------------------------------------------------------------ ProcessRequest

\* A switch whose default branch is the handler of Peek
EntryDefaultPeek(cmd) ==
    CASE cmd = Acquire -> "acq_rlock"
      [] cmd = Release -> "rel_rlock"
      [] cmd = Verify -> "ver_rlock"
      [] OTHER -> "peek_rlock"

\* A switch over the command bytes 2, 3, 4 and 5
EntryFromTwo(cmd) ==
    CASE cmd = 2 -> "peek_rlock"
      [] cmd = 3 -> "acq_rlock"
      [] cmd = 4 -> "rel_rlock"
      [] cmd = 5 -> "ver_rlock"
      [] OTHER -> "unknown"

\* The first statement of each command's handler.
Entry(cmd) ==
    CASE cmd = Acquire -> "acq_rlock"
      [] cmd = Release -> "rel_rlock"
      [] cmd = Peek -> "peek_rlock"
      [] cmd = Verify -> "ver_rlock"
      [] OTHER -> "unknown"

\* The version a request came with, left as it came
KeptVersion(version) == version

\* "override with own version": what the version assignment leaves in res of
\* the version the request came with.
OwnVersion(version) == <<VersionMajor, VersionMinor>>

\* res.LockRequest once the version is assigned: the request's command and
\* name and the daemon's version.  ver remembers the version that came.
Kept(cmd, name, version) ==
    [cmd |-> cmd, name |-> name,
     vmaj |-> OwnVersion(version)[1], vmin |-> OwnVersion(version)[2],
     ver |-> version]

\* ProcessRequest up to the call of the handler, for a request of session s
\* with a command of `cmds`, a lock name of `names` and a version of
\* `versions`.
ProcessRequest(s, cmds, names, versions) ==
    /\ Runs(s)
    /\ pc[s] = "idle"
    /\ \E cmd \in cmds, name \in names, version \in versions :
         IF ~MatchString(name)
         THEN /\ Returned(ResponseOf(s, Kept(cmd, name, version), BadRequest,
                                     "invalid lock name", FALSE, FALSE))
              /\ UNCHANGED <<pc, req>>
         ELSE IF Entry(cmd) = "unknown"
         THEN /\ Returned(ResponseOf(s, Kept(cmd, name, version), BadRequest,
                                     "unknown command", FALSE, FALSE))
              /\ UNCHANGED <<pc, req>>
         ELSE /\ Quiet
              /\ req' = [req EXCEPT ![s] = Kept(cmd, name, version)]
              /\ pc' = [pc EXCEPT ![s] = Entry(cmd)]
    /\ UNCHANGED <<fsVars, regVars, muVars, f, filesToDrop, granted>>

\* ------------------------------------------------------ shortAcquire, acquire

\* shortAcquire that answers the owner with an empty reason
ShortAcquireNoReason(s, h) ==
    LET by == resourceAcquiredBy[h] IN
    IF by = Nobody
    THEN Panic(s) /\ UNCHANGED granted
    ELSE IF by # s
    THEN /\ Return(s, Failed, "resource acquired through a different session")
         /\ UNCHANGED granted
    ELSE /\ Return(s, Success, "")
         /\ granted' = [granted EXCEPT ![s] = @ \cup {req[s].name}]

\* shortAcquire(client, f, fullLock) after the mutex is given back: the entry
\* exists; who owns it?
ShortAcquire(s, h) ==
    LET by == resourceAcquiredBy[h] IN
    IF by = Nobody
    THEN Panic(s) /\ UNCHANGED granted
    ELSE IF by # s
    THEN /\ Return(s, Failed, "resource acquired through a different session")
         /\ UNCHANGED granted
    ELSE /\ Return(s, Success, "no-op")
         /\ granted' = [granted EXCEPT ![s] = @ \cup {req[s].name}]

\* acquire under the read lock: the first lookup.
AcqRLock(s) ==
    LET h == knownResources[DaemonOf(s)][req[s].name] IN
    /\ Runs(s)
    /\ pc[s] = "acq_rlock"
    /\ RLockRUnlock(s)
    /\ IF h # NoHandle
       THEN ShortAcquire(s, h)
       ELSE /\ pc' = [pc EXCEPT ![s] = "acq_lock"]
            /\ Quiet
            /\ UNCHANGED <<req, f, granted>>
    /\ UNCHANGED <<fsVars, regVars, filesToDrop>>

\* acquire that takes the write lock and goes straight to the file
AcqLockNoRecheck(s) ==
    /\ Runs(s)
    /\ pc[s] = "acq_lock"
    /\ Lock(s)
    /\ pc' = [pc EXCEPT ![s] = "acq_open"]
    /\ Quiet
    /\ UNCHANGED <<fsVars, regVars, req, f, filesToDrop, granted>>

\* acquire under the write lock: "check again, as meanwhile lock could have
\* been created"
AcqLock(s) ==
    LET h == knownResources[DaemonOf(s)][req[s].name] IN
    /\ Runs(s)
    /\ pc[s] = "acq_lock"
    /\ IF h # NoHandle
       THEN /\ LockUnlock(s)
            /\ ShortAcquire(s, h)
       ELSE /\ Lock(s)
            /\ pc' = [pc EXCEPT ![s] = "acq_open"]
            /\ Quiet
            /\ UNCHANGED <<req, f, granted>>
    /\ UNCHANGED <<fsVars, regVars, filesToDrop>>

\* os.OpenFile(directory+lockName+lockExt, os.O_RDWR|os.O_CREATE, 0664)
AcqOpen(s) ==
    LET n == req[s].name
        h == <<s, n>>
    IN
    /\ Runs(s)
    /\ pc[s] = "acq_open"
    /\ \E e \in OpenOutcomes(h, n, TRUE) :
         IF e = "ok"
         THEN /\ path' = [path EXCEPT ![n] = OpenedInode(n)]
              /\ hino' = [hino EXCEPT ![h] = OpenedInode(n)]
              /\ f' = [f EXCEPT ![s] = h]
              /\ pc' = [pc EXCEPT ![s] = "acq_flock"]
              /\ Quiet
              /\ UNCHANGED <<flock, muVars, req>>
         ELSE /\ Unlock(s)
              /\ ReturnErr(s)
              /\ UNCHANGED fsVars
    /\ UNCHANGED <<regVars, filesToDrop, granted>>

\* err = acquireLockDirect(f), and the error path that follows it
AcqFlock(s) ==
    LET d == DaemonOf(s)
        h == f[s]
    IN
    /\ Runs(s)
    /\ pc[s] = "acq_flock"
    /\ \E e \in AcquireLockDirectOutcomes(d, h) :
         IF e = "ok"
         THEN /\ flock' = FlockAfterLock(d, h)
              /\ pc' = [pc EXCEPT ![s] = "acq_write"]
              /\ Quiet
              /\ UNCHANGED <<path, hino, muVars, req, f>>
         ELSE /\ hino' = HinoAfterClose(h)
              /\ flock' = FlockAfterClose(d, h)
              /\ Unlock(s)
              /\ IF Contended(e)
                 THEN Return(s, Failed, "resource acquired by different process")
                 ELSE ReturnFull(s, InternalError, e, FALSE, TRUE)
              /\ UNCHANGED path
    /\ UNCHANGED <<regVars, filesToDrop, granted>>

\* acquire whose failed f.Write returns without f.Close()
AcqWriteKeepsLock(s) ==
    LET d == DaemonOf(s)
        h == f[s]
        n == req[s].name
    IN
    /\ Runs(s)
    /\ pc[s] = "acq_write"
    /\ \E e \in {"ok", "EIO"} :
         IF e = "ok"
         THEN /\ resourceAcquiredBy' = [resourceAcquiredBy EXCEPT ![h] = s]
              /\ knownResources' = [knownResources EXCEPT ![d][n] = h]
              /\ Unlock(s)
              /\ Return(s, Success, "")
              /\ granted' = [granted EXCEPT ![s] = @ \cup {n}]
              /\ UNCHANGED fsVars
         ELSE /\ Unlock(s)
              /\ ReturnFull(s, InternalError, WriteErrorText(e), FALSE, TRUE)
              /\ UNCHANGED <<fsVars, regVars, granted>>
    /\ UNCHANGED filesToDrop

\* f.Write(marker), then the insertion of the entry
AcqWrite(s) ==
    LET d == DaemonOf(s)
        h == f[s]
        n == req[s].name
    IN
    /\ Runs(s)
    /\ pc[s] = "acq_write"
    /\ \E e \in {"ok", "EIO"} :
         IF e = "ok"
         THEN /\ resourceAcquiredBy' = [resourceAcquiredBy EXCEPT ![h] = s]
              /\ knownResources' = [knownResources EXCEPT ![d][n] = h]
              /\ Unlock(s)
              /\ Return(s, Success, "")
              /\ granted' = [granted EXCEPT ![s] = @ \cup {n}]
              /\ UNCHANGED fsVars
         ELSE /\ hino' = HinoAfterClose(h)
              /\ flock' = FlockAfterClose(d, h)
              /\ Unlock(s)
              /\ ReturnFull(s, InternalError, WriteErrorText(e), FALSE, TRUE)
              /\ UNCHANGED <<path, regVars, granted>>
    /\ UNCHANGED filesToDrop

AcquireStep(s) ==
    \/ AcqRLock(s)
    \/ AcqLock(s)
    \/ AcqOpen(s)
    \/ AcqFlock(s)
    \/ AcqWrite(s)

\* ---------------------------------------------------------------------- peek

\* peek: the lookup and, with no entry, os.OpenFile(..., os.O_RDONLY, 0664).
\* The deferred RUnlock runs on every return.
PeekRLock(s) ==
    LET d == DaemonOf(s)
        n == req[s].name
        h == <<s, n>>
    IN
    /\ Runs(s)
    /\ pc[s] = "peek_rlock"
    /\ IF knownResources[d][n] # NoHandle
       THEN /\ RLockRUnlock(s)
            /\ ReturnFull(s, Success, "", TRUE, FALSE)
            /\ UNCHANGED fsVars
       ELSE \E e \in OpenOutcomes(h, n, FALSE) :
              CASE e = "ok" ->
                     /\ RLock(s)
                     /\ hino' = [hino EXCEPT ![h] = path[n]]
                     /\ f' = [f EXCEPT ![s] = h]
                     /\ pc' = [pc EXCEPT ![s] = "peek_probe"]
                     /\ Quiet
                     /\ UNCHANGED <<path, flock, req>>
                [] e = "ENOENT" ->
                     /\ RLockRUnlock(s)
                     /\ ReturnFull(s, Success, "", FALSE, FALSE)
                     /\ UNCHANGED fsVars
                [] OTHER ->
                     /\ RLockRUnlock(s)
                     /\ ReturnErr(s)
                     /\ UNCHANGED fsVars
    /\ UNCHANGED <<regVars, filesToDrop, granted>>

\* isUnlocked(f), first half: the non-blocking exclusive lock attempt.  When the
\* attempt fails the probe is over: f.Close() and the return follow.
PeekProbe(s) ==
    LET d == DaemonOf(s)
        h == f[s]
    IN
    /\ Runs(s)
    /\ pc[s] = "peek_probe"
    /\ \E e \in AcquireLockDirectOutcomes(d, h) :
         IF e = "ok"
         THEN /\ flock' = FlockAfterLock(d, h)
              /\ pc' = [pc EXCEPT ![s] = "peek_unprobe"]
              /\ Quiet
              /\ UNCHANGED <<path, hino, muVars, req, f>>
         ELSE /\ hino' = HinoAfterClose(h)
              /\ flock' = FlockAfterClose(d, h)
              /\ RUnlock(s)
              /\ IF Contended(e)
                 THEN ReturnFull(s, Success, "", TRUE, FALSE)
                 ELSE ReturnErr(s)
              /\ UNCHANGED path
    /\ UNCHANGED <<regVars, filesToDrop, granted>>

\* peek that keeps the file it probed, as acquire keeps the file it locked
PeekUnprobeKeepsFile(s) ==
    LET d == DaemonOf(s)
        h == f[s]
        n == req[s].name
    IN
    /\ Runs(s)
    /\ pc[s] = "peek_unprobe"
    /\ knownResources' = [knownResources EXCEPT ![d][n] = h]
    /\ resourceAcquiredBy' = [resourceAcquiredBy EXCEPT ![h] = s]
    /\ RUnlock(s)
    /\ ReturnFull(s, Success, "", FALSE, FALSE)
    /\ UNCHANGED <<fsVars, filesToDrop, granted>>

\* isUnlocked(f), second half: the probe's lock is dropped again; then
\* f.Close() and the return.
PeekUnprobe(s) ==
    LET d == DaemonOf(s)
        h == f[s]
    IN
    /\ Runs(s)
    /\ pc[s] = "peek_unprobe"
    /\ hino' = HinoAfterClose(h)
    /\ flock' = FlockAfterClose(d, h)
    /\ RUnlock(s)
    /\ \E e \in ReleaseLockOutcomes :
         IF e = "ok"
         THEN ReturnFull(s, Success, "", FALSE, FALSE)
         ELSE ReturnErr(s)
    /\ UNCHANGED <<path, regVars, filesToDrop, granted>>

PeekStep(s) ==
    \/ PeekRLock(s)
    \/ PeekProbe(s)
    \/ PeekUnprobe(s)


\* ------------------------------------------------------------------- release

\* The lookup without the comparison of the owner with the client
OwnershipAnyOwner(s, n) ==
    LET h == knownResources[DaemonOf(s)][n] IN
    IF h = NoHandle THEN "lock not found"
    ELSE IF resourceAcquiredBy[h] = Nobody THEN "panic"
    ELSE "found"

\* The lookup of release and of verifyOwnership, which both make it twice:
\* "found" when the entry exists and is the client's.
Ownership(s, n) ==
    LET h == knownResources[DaemonOf(s)][n] IN
    IF h = NoHandle THEN "lock not found"
    ELSE IF resourceAcquiredBy[h] = Nobody THEN "panic"
    ELSE IF resourceAcquiredBy[h] # s
         THEN "resource acquired through a different session"
    ELSE "found"

\* release under the read lock
RelRLock(s) ==
    LET o == Ownership(s, req[s].name) IN
    /\ Runs(s)
    /\ pc[s] = "rel_rlock"
    /\ RLockRUnlock(s)
    /\ CASE o = "found" ->
              /\ pc' = [pc EXCEPT ![s] = "rel_lock"]
              /\ Quiet
              /\ UNCHANGED <<req, f>>
         [] o = "panic" -> Panic(s)
         [] OTHER -> Return(s, Failed, o)
    /\ UNCHANGED <<fsVars, regVars, filesToDrop, granted>>

\* release under the write lock: the second lookup
RelLock(s) ==
    LET o == Ownership(s, req[s].name) IN
    /\ Runs(s)
    /\ pc[s] = "rel_lock"
    /\ CASE o = "found" ->
              /\ Lock(s)
              /\ pc' = [pc EXCEPT ![s] = "rel_unlock"]
              /\ Quiet
              /\ UNCHANGED <<req, f>>
         [] o = "panic" ->
              /\ Lock(s)
              /\ Panic(s)
         [] OTHER ->
              /\ LockUnlock(s)
              /\ Return(s, Failed, o)
    /\ UNCHANGED <<fsVars, regVars, filesToDrop, granted>>

\* release whose failed releaseLock drops the entry and the file all the same
RelUnlockDropsEntry(s) ==
    LET d == DaemonOf(s)
        n == req[s].name
        h == knownResources[d][n]
    IN
    /\ Runs(s)
    /\ pc[s] = "rel_unlock"
    /\ \E e \in ReleaseLockOutcomes :
         /\ flock' = FlockAfterClose(d, h)
         /\ knownResources' = [knownResources EXCEPT ![d][n] = NoHandle]
         /\ resourceAcquiredBy' = [resourceAcquiredBy EXCEPT ![h] = Nobody]
         /\ hino' = HinoAfterClose(h)
         /\ granted' = [granted EXCEPT ![s] = @ \ {n}]
         /\ IF e = "ok"
            THEN /\ pc' = [pc EXCEPT ![s] = "rel_remove"]
                 /\ Quiet
                 /\ UNCHANGED <<path, muVars, req, f>>
            ELSE /\ Unlock(s)
                 /\ ReturnFull(s, InternalError, e, FALSE, TRUE)
                 /\ UNCHANGED path
    /\ UNCHANGED filesToDrop

\* releaseLock(f); on success the two deletes and f.Close()
RelUnlock(s) ==
    LET d == DaemonOf(s)
        n == req[s].name
        h == knownResources[d][n]
    IN
    /\ Runs(s)
    /\ pc[s] = "rel_unlock"
    /\ \E e \in ReleaseLockOutcomes :
         IF e = "ok"
         THEN /\ flock' = FlockAfterUnlock(d, h)
              /\ knownResources' = [knownResources EXCEPT ![d][n] = NoHandle]
              /\ resourceAcquiredBy' = [resourceAcquiredBy EXCEPT ![h] = Nobody]
              /\ hino' = HinoAfterClose(h)
              /\ granted' = [granted EXCEPT ![s] = @ \ {n}]
              /\ pc' = [pc EXCEPT ![s] = "rel_remove"]
              /\ Quiet
              /\ UNCHANGED <<path, muVars, req, f>>
         ELSE /\ Unlock(s)
              /\ ReturnFull(s, InternalError, e, FALSE, TRUE)
              /\ UNCHANGED <<fsVars, regVars, granted>>
    /\ UNCHANGED filesToDrop

\* release whose failed os.Remove returns with the write lock still held
RelRemoveKeepsMutex(s) ==
    LET n == req[s].name IN
    /\ Runs(s)
    /\ pc[s] = "rel_remove"
    /\ \E e \in RemoveOutcomes(n) :
         IF e = "ok"
         THEN /\ path' = [path EXCEPT ![n] = NoFile]
              /\ Return(s, Success, "")
              /\ Unlock(s)
         ELSE /\ ReturnFull(s, InternalError, RemoveErrorText(e), FALSE, TRUE)
              /\ UNCHANGED <<path, muVars>>
    /\ UNCHANGED <<flock, hino, regVars, filesToDrop, granted>>

\* release without os.Remove
RelRemoveKeepsFile(s) ==
    /\ Runs(s)
    /\ pc[s] = "rel_remove"
    /\ Return(s, Success, "")
    /\ Unlock(s)
    /\ UNCHANGED <<fsVars, regVars, filesToDrop, granted>>

\* os.Remove(directory + lockName + lockExt), the Unlock and the return
RelRemove(s) ==
    LET n == req[s].name IN
    /\ Runs(s)
    /\ pc[s] = "rel_remove"
    /\ \E e \in RemoveOutcomes(n) :
         IF e = "ok"
         THEN /\ path' = [path EXCEPT ![n] = NoFile]
              /\ Return(s, Success, "")
         ELSE /\ ReturnFull(s, InternalError, RemoveErrorText(e), FALSE, TRUE)
              /\ UNCHANGED path
    /\ Unlock(s)
    /\ UNCHANGED <<flock, hino, regVars, filesToDrop, granted>>

ReleaseStep(s) ==
    \/ RelRLock(s)
    \/ RelLock(s)
    \/ RelUnlock(s)
    \/ RelRemove(s)

\* ----------------------------------------------------------- verifyOwnership

\* verifyOwnership under the read lock
VerRLock(s) ==
    LET o == Ownership(s, req[s].name) IN
    /\ Runs(s)
    /\ pc[s] = "ver_rlock"
    /\ RLockRUnlock(s)
    /\ CASE o = "found" ->
              /\ pc' = [pc EXCEPT ![s] = "ver_lock"]
              /\ Quiet
              /\ UNCHANGED <<req, f>>
         [] o = "panic" -> Panic(s)
         [] OTHER -> Return(s, Failed, o)
    /\ UNCHANGED <<fsVars, regVars, filesToDrop, granted>>

\* verifyOwnership under the write lock: the second lookup and, for the owner,
\* acquireLockDirect(f) once more
VerLock(s) ==
    LET d == DaemonOf(s)
        n == req[s].name
        h == knownResources[d][n]
        o == Ownership(s, n)
    IN
    /\ Runs(s)
    /\ pc[s] = "ver_lock"
    /\ CASE o = "found" ->
              /\ LockUnlock(s)
              /\ \E e \in AcquireLockDirectOutcomes(d, h) :
                   IF e = "ok"
                   THEN /\ flock' = FlockAfterLock(d, h)
                        /\ Return(s, Success, "")
                   ELSE /\ IF Contended(e)
                           THEN Return(s, Failed, "resource acquired by different process")
                           ELSE ReturnFull(s, InternalError, e, FALSE, TRUE)
                        /\ UNCHANGED flock
         [] o = "panic" ->
              /\ Lock(s)
              /\ Panic(s)
              /\ UNCHANGED flock
         [] OTHER ->
              /\ LockUnlock(s)
              /\ Return(s, Failed, o)
              /\ UNCHANGED flock
    /\ UNCHANGED <<path, hino, regVars, filesToDrop, granted>>

VerifyStep(s) ==
    \/ VerRLock(s)
    \/ VerLock(s)

\* --------------------------------------------------------- ProcessDisconnect

\* The connection of an idle session ends; the handler calls ProcessDisconnect.
\* The session's name then stands for the next connection.
Disconnect(s) ==
    /\ Runs(s)
    /\ pc[s] = "idle"
    /\ pc' = [pc EXCEPT ![s] = "disc_lock"]
    /\ Quiet
    /\ UNCHANGED <<fsVars, regVars, muVars, req, f, filesToDrop, granted>>

DiscLock(s) ==
    /\ Runs(s)
    /\ pc[s] = "disc_lock"
    /\ Lock(s)
    /\ pc' = [pc EXCEPT ![s] = "disc_loop"]
    /\ Quiet
    /\ UNCHANGED <<fsVars, regVars, req, f, filesToDrop, granted>>

\* The first loop without f.Close(): the file stays open and locked.
DiscDropNoClose(s) ==
    LET d == DaemonOf(s) IN
    /\ Runs(s)
    /\ pc[s] = "disc_loop"
    /\ \E h \in Handles :
         /\ h[1] \in {t \in Sessions : DaemonOf(t) = d}
         /\ resourceAcquiredBy[h] = s
         /\ filesToDrop' = [filesToDrop EXCEPT ![s] = @ \cup {h}]
         /\ resourceAcquiredBy' = [resourceAcquiredBy EXCEPT ![h] = Nobody]
    /\ Quiet
    /\ UNCHANGED <<fsVars, knownResources, muVars, pc, req, f, granted>>

\* The first loop without "if by == client": every file is dropped.
DiscDropAnyOwner(s) ==
    LET d == DaemonOf(s) IN
    /\ Runs(s)
    /\ pc[s] = "disc_loop"
    /\ \E h \in Handles :
         /\ h[1] \in {t \in Sessions : DaemonOf(t) = d}
         /\ resourceAcquiredBy[h] # Nobody
         /\ hino' = HinoAfterClose(h)
         /\ flock' = FlockAfterClose(d, h)
         /\ filesToDrop' = [filesToDrop EXCEPT ![s] = @ \cup {h}]
         /\ resourceAcquiredBy' = [resourceAcquiredBy EXCEPT ![h] = Nobody]
    /\ Quiet
    /\ UNCHANGED <<path, knownResources, muVars, pc, req, f, granted>>

\* One turn of the first loop: a file of the client is closed, noted and
\* taken out of resourceAcquiredBy.
DiscDrop(s) ==
    LET d == DaemonOf(s) IN
    /\ Runs(s)
    /\ pc[s] = "disc_loop"
    /\ \E h \in Handles :
         /\ h[1] \in {t \in Sessions : DaemonOf(t) = d}
         /\ resourceAcquiredBy[h] = s
         /\ hino' = HinoAfterClose(h)
         /\ flock' = FlockAfterClose(d, h)
         /\ filesToDrop' = [filesToDrop EXCEPT ![s] = @ \cup {h}]
         /\ resourceAcquiredBy' = [resourceAcquiredBy EXCEPT ![h] = Nobody]
    /\ Quiet
    /\ UNCHANGED <<path, knownResources, muVars, pc, req, f, granted>>

\* ProcessDisconnect without its second loop: the names stay in knownResources.
DiscDoneKeepsNames(s) ==
    /\ Runs(s)
    /\ pc[s] = "disc_loop"
    /\ \A h \in Handles : resourceAcquiredBy[h] # s
    /\ Unlock(s)
    /\ filesToDrop' = [filesToDrop EXCEPT ![s] = {}]
    /\ pc' = [pc EXCEPT ![s] = "idle"]
    /\ granted' = [granted EXCEPT ![s] = {}]
    /\ Returned([kind |-> "disconnected", sess |-> s, names |-> {},
                 files |-> filesToDrop[s]])
    /\ UNCHANGED <<fsVars, regVars, req, f>>

\* The second loop (each dropped file's name leaves knownResources) and the
\* Unlock.  The return carries what the call removed.
DiscDone(s) ==
    LET d == DaemonOf(s)
        names == {n \in LockNames : knownResources[d][n] \in filesToDrop[s]}
    IN
    /\ Runs(s)
    /\ pc[s] = "disc_loop"
    /\ \A h \in Handles : resourceAcquiredBy[h] # s
    /\ knownResources' =
         [knownResources EXCEPT ![d] =
            [n \in LockNames |-> IF n \in names THEN NoHandle ELSE @[n]]]
    /\ Unlock(s)
    /\ filesToDrop' = [filesToDrop EXCEPT ![s] = {}]
    /\ pc' = [pc EXCEPT ![s] = "idle"]
    /\ granted' = [granted EXCEPT ![s] = {}]
    /\ Returned([kind |-> "disconnected", sess |-> s, names |-> names,
                 files |-> filesToDrop[s]])
    /\ UNCHANGED <<fsVars, resourceAcquiredBy, req, f>>

DisconnectStep(s) ==
    \/ Disconnect(s)
    \/ DiscLock(s)
    \/ DiscDrop(s)
    \/ DiscDone(s)

\* ------------------------------------------------------------ specification

\* A step of a handler of session s.
Handler(s) ==
    \/ AcquireStep(s)
    \/ PeekStep(s)
    \/ ReleaseStep(s)
    \/ VerifyStep(s)
    \/ DisconnectStep(s)

\* One daemon, its two sessions and two lock names.
Next ==
    \E s \in {"a1", "a2"} :
       \/ ProcessRequest(s, CommandBytes, ValidNames \cup BadNames, ClientVersions)
       \/ Handler(s)

Spec == Init /\ [][Next]_vars

\* Two daemons on one directory with one session each, after the same lock
\* name.
NextShared ==
    \E s \in {"a1", "b1"} :
       \/ ProcessRequest(s, CommandBytes, {L1} \cup BadNames, ClientVersions)
       \/ Handler(s)

SpecShared == Init /\ [][NextShared]_vars

\* Both daemons and all three sessions, one handler at a time, with the four
\* commands and a valid lock name; the last two returns are remembered.
NextSeq ==
    \E s \in Sessions :
       \/ ProcessRequest(s, {Peek, Acquire, Release, Verify}, {L1}, ClientVersions)
       \/ Handler(s)

SpecSeq == InitSeq /\ [][NextSeq]_vars

\* One daemon, its two sessions and one lock name, with requests of every
\* version.
NextWire ==
    \E s \in {"a1", "a2"} :
       \/ ProcessRequest(s, CommandBytes, {L1} \cup BadNames, RequestVersions)
       \/ Handler(s)

SpecWire == Init /\ [][NextWire]_vars

\* The four commands of the protocol.
Commands == {Peek, Acquire, Release, Verify}

\* One daemon, its two sessions, the four commands and one lock name, with
\* the scheduling of the handlers: a call that has started goes on whenever
\* it can, and sync.RWMutex lets no waiter wait for ever (a blocked Lock
\* keeps new readers out, an Unlock lets the waiting readers in), so a step
\* that can be taken again and again is taken.  Requests and disconnections
\* come when the clients send them.
NextLive ==
    \E s \in {"a1", "a2"} :
       \/ ProcessRequest(s, Commands, {L1}, ClientVersions)
       \/ Handler(s)

InCall(s) == pc[s] # "idle" /\ Handler(s)

SpecLive ==
    /\ Init
    /\ [][NextLive]_vars
    /\ \A s \in {"a1", "a2"} : SF_vars(InCall(s))

\* ------------------------------------------------------------------ claims

SameDaemon(s1, s2) == DaemonOf(s1) = DaemonOf(s2)

\* The registry of the daemon of s holds an entry for n that s owns.
Owns(s, n) ==
    /\ knownResources[DaemonOf(s)][n] # NoHandle
    /\ resourceAcquiredBy[knownResources[DaemonOf(s)][n]] = s

\* r is the response to a request of command cmd for a well-formed name: what
\* the handler of cmd returned.
IsResponse(r, cmd) == r.kind = "response" /\ r.cmd = cmd /\ r.name \in ValidNames

\* C1: within one daemon, while a session s1 has been answered Success for a
\* name and has neither released it nor disconnected, no other session of
\* that daemon is granted the name, and every Acquire of the name by another
\* session of that daemon is answered Failed.
C1_SessionExclusion ==
    \A s1 \in Sessions : \A s2 \in Sessions \ {s1} :
       SameDaemon(s1, s2) =>
          /\ granted[s1] \cap granted[s2] = {}
          /\ (IsResponse(res, Acquire) /\ res.sess = s2 /\ res.name \in granted[s1])
                => res.result = Failed

\* C1 witness: an Acquire is refused because another session of the daemon
\* holds the name.
C1_Witness ==
    \E s1 \in Sessions : \E s2 \in Sessions \ {s1} :
       /\ SameDaemon(s1, s2)
       /\ IsResponse(res, Acquire) /\ res.sess = s2 /\ res.result = Failed
       /\ res.name \in granted[s1]

\* C2: no lock name is owned at once by sessions of two daemons that share
\* the lock directory.
C2_CrossDaemonExclusion ==
    \A n \in ValidNames : \A s1 \in Sessions : \A s2 \in Sessions :
       ~(~SameDaemon(s1, s2) /\ Owns(s1, n) /\ Owns(s2, n))

\* C3: when ProcessDisconnect of a session has run, the registry holds no
\* entry of that session, the files it held are closed, the daemon holds no
\* advisory lock on the lock files of the names it held, nor any lock but
\* those of the entries it still has; and an Acquire of such a name by
\* another session that comes next and meets no system error is answered
\* Success.
C3_DisconnectFrees ==
    /\ res.kind = "disconnected" =>
          /\ \A h \in Handles : resourceAcquiredBy[h] # res.sess
          /\ \A h \in res.files : hino[h] = NoFile
          /\ \A n \in res.names :
                /\ knownResources[DaemonOf(res.sess)][n] = NoHandle
                /\ path[n] # NoFile => flock[path[n]] # DaemonOf(res.sess)
          /\ \A i \in Inodes :
                flock[i] = DaemonOf(res.sess) =>
                   \E n \in ValidNames :
                      /\ knownResources[DaemonOf(res.sess)][n] # NoHandle
                      /\ hino[knownResources[DaemonOf(res.sess)][n]] = i
    /\ (/\ Len(log.ev) = 2
        /\ log.ev[1].kind = "disconnected"
        /\ IsResponse(log.ev[2], Acquire)
        /\ log.ev[2].sess # log.ev[1].sess
        /\ log.ev[2].name \in log.ev[1].names
        /\ ~log.ev[2].fserr)
          => log.ev[2].result = Success /\ log.ev[2].reason = ""

\* C3 witness: a session that held L1 disconnected and the next request,
\* another session's Acquire of L1, succeeded.
C3_Witness ==
    /\ Len(log.ev) = 2
    /\ log.ev[1].kind = "disconnected"
    /\ L1 \in log.ev[1].names
    /\ IsResponse(log.ev[2], Acquire)
    /\ log.ev[2].sess # log.ev[1].sess
    /\ log.ev[2].name = L1
    /\ log.ev[2].result = Success

\* The positions of the handlers of Acquire past the two lookups.
AcquirePastLookups == {"acq_open", "acq_flock", "acq_write"}

C4_Step ==
    \A s \in Sessions :
       /\ (pc[s] = "acq_rlock" /\ pc'[s] # pc[s] /\ Owns(s, req[s].name)) =>
             /\ res' = Response(s, Acquire, req[s].name, Success, "no-op", FALSE, FALSE)
             /\ UNCHANGED <<regVars, fsVars>>
       /\ pc[s] \in AcquirePastLookups => ~Owns(s, req[s].name)

\* C4: an Acquire by the session that already owns the name is answered
\* Success with reason "no-op" at the first lookup, with the registry and the
\* files as they were; acquire never gets to open the lock file for a session
\* that owns the name.
C4_AcquireIdempotent == [][C4_Step]_vars

\* C4 witness: the owner of a name was just answered Success, "no-op".
C4_Witness ==
    /\ IsResponse(res, Acquire)
    /\ res.result = Success /\ res.reason = "no-op"
    /\ Owns(res.sess, res.name)

\* C5: a Release answered Success has an empty reason and leaves no entry for
\* the name and no lock file; the Release that follows a successful Acquire
\* or Verify of the name by the same session succeeds unless a system call
\* fails; and the Release of the name by that session that follows a
\* successful Release is answered Failed, "lock not found".
C5_ReleaseFinal ==
    /\ (IsResponse(res, Release) /\ res.result = Success) =>
          /\ res.reason = ""
          /\ knownResources[DaemonOf(res.sess)][res.name] = NoHandle
          /\ \A h \in Handles : resourceAcquiredBy[h] = res.sess => h[2] # res.name
          /\ path[res.name] = NoFile
    /\ (/\ Len(log.ev) = 2
        /\ log.ev[1].kind = "response" /\ log.ev[1].cmd \in {Acquire, Verify}
        /\ log.ev[1].result = Success
        /\ IsResponse(log.ev[2], Release)
        /\ log.ev[2].sess = log.ev[1].sess /\ log.ev[2].name = log.ev[1].name
        /\ ~log.ev[2].fserr)
          => log.ev[2].result = Success /\ log.ev[2].reason = ""
    /\ (/\ Len(log.ev) = 2
        /\ IsResponse(log.ev[1], Release) /\ log.ev[1].result = Success
        /\ IsResponse(log.ev[2], Release)
        /\ log.ev[2].sess = log.ev[1].sess /\ log.ev[2].name = log.ev[1].name)
          => log.ev[2].result = Failed /\ log.ev[2].reason = "lock not found"

\* C5 witness: a session released L1 and its next Release of L1 found no lock.
C5_Witness ==
    /\ Len(log.ev) = 2
    /\ IsResponse(log.ev[1], Release) /\ log.ev[1].result = Success
    /\ IsResponse(log.ev[2], Release) /\ log.ev[2].result = Failed
    /\ log.ev[2].sess = log.ev[1].sess
    /\ log.ev[1].name = L1 /\ log.ev[2].name = L1

C6_Step ==
    /\ (res'.kind = "response" /\ res'.name \in BadNames) =>
          /\ res'.result = BadRequest
          /\ res'.reason = "invalid lock name"
          /\ UNCHANGED <<regVars, fsVars>>
    /\ \A s \in Sessions : req'[s] # NoReq => req'[s].name \in ValidNames

\* C6: a request whose lock name is empty or holds a character other than a
\* letter, a digit, "." and "-" is answered BadRequest, "invalid lock name",
\* whatever its command byte and whatever the registry holds, with the
\* registry and the files as they were; no handler ever runs for such a name.
C6_InvalidName == [][C6_Step]_vars

\* C6 witness: while the registry holds an entry, a request with the name
\* "../x" and a command byte no command has was answered "invalid lock name".
C6_Witness ==
    /\ res.kind = "response"
    /\ res.name = <<".", ".", "/", "x">>
    /\ res.cmd = 5
    /\ res.reason = "invalid lock name"
    /\ \E n \in ValidNames : knownResources["A"][n] # NoHandle

C7_Step ==
    /\ IsResponse(res', Verify) =>
          LET s == res'.sess
              n == res'.name
              h == knownResources[DaemonOf(s)][n]
          IN
          /\ res'.result = Success =>
                /\ Owns(s, n)
                /\ res'.reason = ""
                /\ flock'[hino'[h]] = DaemonOf(s)
          /\ (Owns(s, n) /\ ~res'.fserr) => res'.result = Success
          /\ h = NoHandle =>
                res'.result = Failed /\ res'.reason = "lock not found"
          /\ (h # NoHandle /\ resourceAcquiredBy[h] \in Sessions \ {s}) =>
                /\ res'.result = Failed
                /\ res'.reason = "resource acquired through a different session"
    /\ (/\ Len(log'.ev) = 2
        /\ IsResponse(log'.ev[1], Verify)
        /\ IsResponse(log'.ev[2], Acquire)
        /\ log'.ev[2].sess = log'.ev[1].sess /\ log'.ev[2].name = log'.ev[1].name
        /\ ~log'.ev[1].fserr /\ ~log'.ev[2].fserr)
          => (log'.ev[1].result = Success
                <=> (log'.ev[2].result = Success /\ log'.ev[2].reason = "no-op"))

\* C7: Verify is answered Success only to the owner of the name, whose daemon
\* then holds the advisory lock of the entry's file, and always to the owner
\* unless a system call fails; it is answered Failed, "lock not found" when
\* the registry has no entry for the name and Failed, "resource acquired
\* through a different session" when another session owns it; and a Verify
\* succeeds exactly when the Acquire of the same name by the same session that
\* follows it is answered Success, "no-op".
C7_VerifyOwnership == [][C7_Step]_vars

\* C7 witness: a Verify succeeded and the session's next Acquire of the name
\* was a no-op.
C7_Witness ==
    /\ Len(log.ev) = 2
    /\ IsResponse(log.ev[1], Verify) /\ log.ev[1].result = Success
    /\ IsResponse(log.ev[2], Acquire) /\ log.ev[2].reason = "no-op"
    /\ log.ev[2].sess = log.ev[1].sess /\ log.ev[2].name = log.ev[1].name

\* The positions of release at its two lookups.
ReleaseLookups == {"rel_rlock", "rel_lock"}

C8_Step ==
    /\ \A s \in Sessions :
          (pc[s] \in ReleaseLookups /\ ~Owns(s, req[s].name)) =>
             \/ pc'[s] = pc[s]
             \/ /\ res' = Response(s, Release, req[s].name, Failed,
                           IF knownResources[DaemonOf(s)][req[s].name] = NoHandle
                           THEN "lock not found"
                           ELSE "resource acquired through a different session",
                           FALSE, FALSE)
                /\ UNCHANGED <<regVars, fsVars>>
    /\ \A s \in Sessions : pc[s] = "rel_unlock" => Owns(s, req[s].name)

\* C8: a Release by a session that does not own the name is answered Failed,
\* with "lock not found" when the registry has no entry for the name and with
\* "resource acquired through a different session" when another session owns
\* it, and leaves the registry and the files as they were; release gets to
\* releaseLock only for the owner.
C8_ReleaseByOther == [][C8_Step]_vars

\* C8 witness: a Release was refused because another session owns the name,
\* and that session still owns it.
C8_Witness ==
    /\ IsResponse(res, Release)
    /\ res.result = Failed
    /\ res.reason = "resource acquired through a different session"
    /\ \E s \in Sessions \ {res.sess} : Owns(s, res.name)

PeekPositions == {"peek_rlock", "peek_probe", "peek_unprobe"}

C9_Step ==
    /\ \A s \in Sessions :
          (pc[s] \in PeekPositions /\ pc'[s] # pc[s]) => UNCHANGED regVars
    /\ IsResponse(res', Peek) => UNCHANGED regVars
    /\ (/\ Len(log'.ev) = 2
        /\ IsResponse(log'.ev[1], Peek)
        /\ IsResponse(log'.ev[2], Peek)
        /\ SameDaemon(log'.ev[1].sess, log'.ev[2].sess)
        /\ log'.ev[2].name = log'.ev[1].name
        /\ ~log'.ev[1].fserr /\ ~log'.ev[2].fserr)
          => /\ log'.ev[2].result = log'.ev[1].result
             /\ log'.ev[2].reason = log'.ev[1].reason
             /\ log'.ev[2].isLocked = log'.ev[1].isLocked

\* C9: no step of peek changes knownResources or resourceAcquiredBy, and a
\* Peek of a name that comes right after a Peek of that name at the same
\* daemon returns the same result, reason and isLocked, unless a system call
\* of one of the two fails.
C9_PeekReadOnly == [][C9_Step]_vars

\* C9 witness: two Peeks of L1 in a row at daemon B both found it locked.
C9_Witness ==
    /\ Len(log.ev) = 2
    /\ IsResponse(log.ev[1], Peek) /\ IsResponse(log.ev[2], Peek)
    /\ log.ev[1].sess = "b1" /\ log.ev[2].sess = "b1"
    /\ log.ev[1].name = L1 /\ log.ev[2].name = L1
    /\ log.ev[1].isLocked /\ log.ev[2].isLocked

\* Some process holds the advisory lock of a lock file of n: the file at the
\* path of n, or the file a daemon's entry for n refers to.
LockHeld(n) ==
    \E i \in Inodes :
       /\ flock[i] # Unlocked
       /\ \/ path[n] = i
          \/ \E t \in Sessions :
                Owns(t, n) /\ hino[knownResources[DaemonOf(t)][n]] = i

C10_Step ==
    \A s \in Sessions :
       (/\ pc[s] = "peek_rlock"
        /\ res = NoRes
        /\ \A t \in Sessions \ {s} : pc[t] = "idle"
        /\ IsResponse(res', Peek) /\ res'.sess = s
        /\ res'.result = Success)
          => res'.isLocked = LockHeld(req[s].name)

\* C10: a Peek that arrives and runs while no other handler does (the step
\* before it returned nothing, so it was the arrival of the request), and that
\* answers from the registry or from the absence of the lock file, answers
\* isLocked exactly when some process holds the advisory lock of a lock file
\* of the name.
C10_PeekHonest == [][C10_Step]_vars

C11_Step ==
    \A s \in Sessions :
       LET n == req[s].name
           h == knownResources[DaemonOf(s)][n]
       IN
       /\ (/\ pc[s] = "acq_lock" /\ pc'[s] # pc[s]
           /\ h # NoHandle /\ resourceAcquiredBy[h] \in Sessions \ {s}) =>
             /\ res' = Response(s, Acquire, n, Failed,
                                "resource acquired through a different session",
                                FALSE, FALSE)
             /\ UNCHANGED <<regVars, fsVars>>
       /\ (pc[s] = "acq_lock" /\ pc'[s] # pc[s] /\ h = NoHandle) =>
             pc'[s] = "acq_open" /\ UNCHANGED <<regVars, fsVars>>
       /\ pc[s] \in AcquirePastLookups =>
             /\ h = NoHandle
             /\ \A t \in Sessions \ {s} :
                   SameDaemon(s, t) => pc[t] \notin AcquirePastLookups
       /\ (pc[s] = "acq_write" /\ pc'[s] # pc[s] /\ ~res'.fserr) =>
             /\ res' = Response(s, Acquire, n, Success, "", FALSE, FALSE)
             /\ knownResources' =
                   [knownResources EXCEPT ![DaemonOf(s)][n] = f[s]]
             /\ resourceAcquiredBy' = [resourceAcquiredBy EXCEPT ![f[s]] = s]

\* C11: of the sessions of a daemon that passed acquire's first lookup for a
\* name with no entry, the one that finds the name still without entry under
\* the write lock goes on to the file alone, and when no system call fails
\* it is answered Success with an empty reason and the entry it inserts is
\* the only change to the registry; a session that finds the other's entry
\* under the write lock is answered Failed, "resource acquired through a
\* different session" with the registry and the files as they were, and no
\* session is ever at the file while the name has an entry.
C11_AcquireRace == [][C11_Step]_vars

\* C11 witness: both sessions of daemon A passed the first lookup for L1, a1
\* has just inserted its entry and a2 has yet to take the write lock.
C11_Witness ==
    /\ res = Response("a1", Acquire, L1, Success, "", FALSE, FALSE)
    /\ Owns("a1", L1)
    /\ pc["a2"] = "acq_lock"
    /\ req["a2"].cmd = Acquire /\ req["a2"].name = L1

\* The four commands.

C12_Step ==
    /\ (/\ res'.kind = "response"
        /\ res'.name \in ValidNames
        /\ res'.cmd \notin Commands) =>
          /\ res'.result = BadRequest
          /\ res'.reason = "unknown command"
          /\ UNCHANGED <<regVars, fsVars>>
    /\ \A s \in Sessions : req'[s] # NoReq => req'[s].cmd \in Commands

\* C12: a request with a well-formed lock name whose command byte is 0, or
\* any other value that is none of Peek, Acquire, Release and Verify, is
\* answered BadRequest, "unknown command" with the registry and the files as
\* they were; no handler ever runs for such a command.
C12_UnknownCommand == [][C12_Step]_vars

\* C12 witness: while the registry holds an entry, a request with command
\* byte 0 and the name L1 was answered "unknown command".
C12_Witness ==
    /\ res.kind = "response"
    /\ res.name = L1
    /\ res.cmd = invalidCommand
    /\ res.result = BadRequest
    /\ res.reason = "unknown command"
    /\ \E n \in ValidNames : knownResources["A"][n] # NoHandle

\* Session s goes from idle into a handler: its request was dispatched.
Dispatched(s) == pc[s] = "idle" /\ req'[s] # NoReq

C13_StepFromTwo ==
    \A s \in Sessions :
       Dispatched(s) =>
          /\ req'[s].cmd # 1
          /\ req'[s].cmd = 2 => pc'[s] = "peek_rlock"
          /\ req'[s].cmd = 3 => pc'[s] = "acq_rlock"
          /\ req'[s].cmd = 4 => pc'[s] = "rel_rlock"
          /\ req'[s].cmd = 5 => pc'[s] = "ver_rlock"

\* C13: a request that carries the command byte 2 is handled by peek, 3 by
\* acquire, 4 by release and 5 by verifyOwnership, and a request that carries
\* the byte 1 is handled by none of them.
C13_WireValues == [][C13_StepFromTwo]_vars

C13_StepFromOne ==
    /\ \A s \in Sessions :
          Dispatched(s) =>
             /\ req'[s].cmd \in 1..4
             /\ req'[s].cmd = 1 => pc'[s] = "peek_rlock"
             /\ req'[s].cmd = 2 => pc'[s] = "acq_rlock"
             /\ req'[s].cmd = 3 => pc'[s] = "rel_rlock"
             /\ req'[s].cmd = 4 => pc'[s] = "ver_rlock"
    /\ (/\ res'.kind = "response"
        /\ res'.name \in ValidNames
        /\ res'.cmd \in {0, 5}) => res'.reason = "unknown command"

\* C13, as the code has it: a request that carries the command byte 1 is
\* handled by peek, 2 by acquire, 3 by release and 4 by verifyOwnership; the
\* bytes 0 and 5 are handled by none of them and answered "unknown command".
C13_WireValuesFromOne == [][C13_StepFromOne]_vars

\* C13 witness: a request with the command byte 1 is in the hands of peek,
\* and one with the byte 4 in the hands of verifyOwnership.
C13_Witness ==
    /\ pc["a1"] = "peek_rlock" /\ req["a1"].cmd = 1
    /\ pc["a2"] = "ver_rlock" /\ req["a2"].cmd = 4

C14_Step ==
    /\ res'.kind = "response" => res'.vmaj = 0 /\ res'.vmin = 1
    /\ \A s \in Sessions :
          /\ (pc[s] # "idle" /\ pc'[s] = "idle" /\ res'.kind = "response") =>
                /\ res'.sess = s
                /\ res'.cmd = req[s].cmd
                /\ res'.name = req[s].name
          /\ (pc[s] # "idle" /\ pc'[s] # "idle") => req'[s] = req[s]
          /\ (pc[s] = "idle" /\ res'.kind = "response" /\ res'.sess = s) =>
                /\ res'.result = BadRequest
                /\ res'.name \in BadNames \/ res'.cmd \notin Commands
          /\ Dispatched(s) => req'[s].vmaj = 0 /\ req'[s].vmin = 1

\* C14: every response carries the version 0.1, whatever version the request
\* came with; the response of a handler carries the command and the lock name
\* the request was dispatched with, which no step of a handler changes; and a
\* request is answered without a handler only with BadRequest, for its name or
\* its command, never for its version.
C14_VersionEcho == [][C14_Step]_vars

\* C14 witness: a request that came with version 255.255 is being served by
\* acquire with the version 0.1 in its response, and the response that just
\* went to the other session carries 0.1 too.
C14_Witness ==
    /\ pc["a1"] = "acq_write"
    /\ req["a1"].ver = <<255, 255>>
    /\ req["a1"].vmaj = 0 /\ req["a1"].vmin = 1
    /\ res.kind = "response" /\ res.sess = "a2"
    /\ res.vmaj = 0 /\ res.vmin = 1

\* ProcessDisconnect of s takes a step.
DisconnectSteps(s) ==
    /\ pc[s] \in {"disc_lock", "disc_loop"}
    /\ pc'[s] # pc[s] \/ filesToDrop'[s] # filesToDrop[s]

C15_Step ==
    \A s \in Sessions :
       DisconnectSteps(s) =>
          LET d == DaemonOf(s) IN
          /\ path' = path
          /\ \A h \in Handles :
                resourceAcquiredBy[h] \in Sessions \ {s} =>
                   /\ resourceAcquiredBy'[h] = resourceAcquiredBy[h]
                   /\ hino'[h] = hino[h]
                   /\ flock'[hino[h]] = flock[hino[h]]
                   /\ \A n \in LockNames :
                         knownResources[d][n] = h => knownResources'[d][n] = h
          /\ \A h \in filesToDrop'[s] \ filesToDrop[s] : resourceAcquiredBy[h] = s
          /\ \A n \in LockNames :
                knownResources'[d][n] # knownResources[d][n] =>
                   /\ knownResources[d][n] \in filesToDrop[s]
                   /\ knownResources'[d][n] = NoHandle
          /\ pc'[s] = "idle" =>
                /\ \A h \in Handles : resourceAcquiredBy'[h] # s
                /\ \A n \in LockNames :
                      knownResources'[d][n] # NoHandle =>
                         resourceAcquiredBy'[knownResources'[d][n]] \in Sessions \ {s}

\* C15: no step of ProcessDisconnect of a session unlinks a lock file or
\* touches the entry, the file or the advisory lock of a name another session
\* owns; the files it drops are files the session owned and the names it
\* removes are the names of the files it dropped; and when it returns every
\* entry left in the registry has another session as its owner.
C15_DisconnectFrame == [][C15_Step]_vars

\* C15 witness: a1, which owned L1, has disconnected; a2 still owns L2 and
\* both lock files are still in the directory.
C15_Witness ==
    /\ res.kind = "disconnected" /\ res.sess = "a1" /\ res.names = {L1}
    /\ knownResources["A"][L1] = NoHandle
    /\ Owns("a2", L2)
    /\ flock[path[L2]] = "A"
    /\ path[L1] # NoFile /\ path[L2] # NoFile

\* Every handle found in knownResources of daemon d has an owner.
IndicesAgree(d) ==
    \A n \in LockNames :
       knownResources[d][n] # NoHandle =>
          /\ resourceAcquiredBy[knownResources[d][n]] \in Sessions
          /\ DaemonOf(resourceAcquiredBy[knownResources[d][n]]) = d

\* The positions at which a handler takes the mutex and looks a name up.
LookupPositions ==
    {"acq_rlock", "acq_lock", "peek_rlock", "rel_rlock", "rel_lock",
     "ver_rlock", "ver_lock"}

\* C16: no handler ever reaches the panic "BUG: missing resource acquired by
\* record"; the two indices disagree only while a ProcessDisconnect is between
\* its two loops, which it is only as the holder of the write lock, so that
\* whenever a handler can take the mutex and look a handle up, and whenever a
\* handler holds the read lock, every handle in knownResources has an owner in
\* resourceAcquiredBy; and no handle is the value of two names.
C16_IndicesAgree ==
    /\ \A s \in Sessions : pc[s] # "panic"
    /\ \A s \in Sessions : pc[s] = "disc_loop" => wlock[DaemonOf(s)] = s
    /\ \A d \in Daemons :
          /\ (\A s \in Sessions : DaemonOf(s) = d => pc[s] # "disc_loop")
                => IndicesAgree(d)
          /\ wlock[d] = Free => IndicesAgree(d)
          /\ rlock[d] # {} => IndicesAgree(d)
          /\ \A n1, n2 \in LockNames :
                n1 # n2 /\ knownResources[d][n1] # NoHandle =>
                   knownResources[d][n1] # knownResources[d][n2]

\* C16 witness: a1's ProcessDisconnect is between its loops, L1's handle is
\* still in knownResources without an owner, and a2 stands at a lookup of L1.
C16_Witness ==
    /\ pc["a1"] = "disc_loop"
    /\ knownResources["A"][L1] # NoHandle
    /\ resourceAcquiredBy[knownResources["A"][L1]] = Nobody
    /\ pc["a2"] \in LookupPositions
    /\ req["a2"].name = L1

\* I3 for daemon d: the file of every entry is open and this process holds
\* its advisory lock.
EntriesLocked(d) ==
    \A n \in LockNames :
       knownResources[d][n] # NoHandle =>
          /\ hino[knownResources[d][n]] # NoFile
          /\ flock[hino[knownResources[d][n]]] = d

\* I4 for daemon d: every file this process holds the advisory lock of is the
\* file of an entry.
LocksEntered(d) ==
    \A i \in Inodes :
       flock[i] = d =>
          \E n \in LockNames :
             /\ knownResources[d][n] # NoHandle
             /\ hino[knownResources[d][n]] = i

C18_Step ==
    \A s \in Sessions :
       pc[s] = "acq_flock" /\ pc'[s] = "idle" =>
          LET d == DaemonOf(s)
              n == req[s].name
              i == hino[f[s]]
          IN
          /\ res'.kind = "response" /\ res'.sess = s
          /\ res'.cmd = Acquire /\ res'.name = n
          /\ \/ /\ res'.result = Failed
                /\ res'.reason = "resource acquired by different process"
                /\ flock[i] \notin {Unlocked, d}
             \/ /\ res'.result = InternalError
                /\ res'.reason \notin {"EAGAIN", "EACCES"}
          /\ hino'[f[s]] = NoFile
          /\ \A h \in Handles : h # f[s] => hino'[h] = hino[h]
          /\ knownResources'[d][n] = NoHandle
          /\ knownResources' = knownResources
          /\ resourceAcquiredBy' = resourceAcquiredBy
          /\ flock' = flock
          /\ path' = path
          /\ wlock'[d] = Free
          /\ granted' = granted

\* C18: when acquire has found no entry and its lock attempt fails, the answer
\* is Failed "resource acquired by different process" if the error is EAGAIN
\* or EACCES, which happens only when another process holds the lock, and
\* InternalError for any other error; in both cases the file acquire opened is
\* closed, no entry is made, every advisory lock is as it was, no file is
\* unlinked and the write lock is given back.
C18_ContendedAcquire == [][C18_Step]_vars

\* C18 witness: a1's Acquire of L1 was answered Failed "resource acquired by
\* different process"; its file is closed, daemon A has no entry, and b1 of
\* daemon B still owns L1 and holds the lock of the file at L1's path.
C18_Witness ==
    /\ res.kind = "response" /\ res.sess = "a1" /\ res.cmd = Acquire
    /\ res.name = L1 /\ res.result = Failed
    /\ res.reason = "resource acquired by different process"
    /\ hino[<<"a1", L1>>] = NoFile
    /\ knownResources["A"][L1] = NoHandle
    /\ Owns("b1", L1)
    /\ path[L1] # NoFile /\ flock[path[L1]] = "B"
    /\ wlock["A"] = Free

\* The error branch of release after releaseLock: the handler of s was at the
\* unlock and returns without going on to the deletes.
C19_Step ==
    \A s \in Sessions :
       pc[s] = "rel_unlock" /\ pc'[s] = "idle" =>
          LET d == DaemonOf(s)
              n == req[s].name
          IN
          /\ res'.kind = "response" /\ res'.sess = s
          /\ res'.cmd = Release /\ res'.name = n
          /\ res'.result = InternalError /\ res'.fserr
          /\ Owns(s, n)
          /\ knownResources' = knownResources
          /\ resourceAcquiredBy' = resourceAcquiredBy
          /\ hino[knownResources[d][n]] # NoFile
          /\ flock[hino[knownResources[d][n]]] = d
          /\ path[n] = hino[knownResources[d][n]]
          /\ path' = path /\ hino' = hino /\ flock' = flock
          /\ wlock'[d] = Free
          /\ granted' = granted

\* A Release answered InternalError with the error of the unlock, then the
\* same session's Release of the same name, no system call failing in it.
C19_Retried ==
    /\ Len(log.ev) = 2
    /\ IsResponse(log.ev[1], Release)
    /\ log.ev[1].result = InternalError /\ log.ev[1].reason = "EIO"
    /\ IsResponse(log.ev[2], Release)
    /\ log.ev[2].sess = log.ev[1].sess /\ log.ev[2].name = log.ev[1].name
    /\ ~log.ev[2].fserr

\* C19: a Release whose unlock fails is answered InternalError and changes
\* nothing: the entry keeps its handle and its owner, the session still owns
\* the name, the file is still open, locked and linked at the name's path, and
\* the write lock is given back; and the Release of the name by that session
\* that follows it succeeds unless a system call fails again.
C19_UnlockFailure ==
    [][C19_Step /\ (C19_Retried' => log'.ev[2].result = Success)]_vars

\* C19 witness: a1's Release of L1 failed at the unlock, its next Release of
\* L1 succeeded and the lock file is gone.
C19_Witness ==
    /\ C19_Retried
    /\ log.ev[1].sess = "a1" /\ log.ev[1].name = L1
    /\ log.ev[2].result = Success
    /\ knownResources["A"][L1] = NoHandle
    /\ path[L1] = NoFile

\* The error branch of release after os.Remove: the handler of s was at the
\* unlink, after the unlock, the two deletes and the Close.
C20_Step ==
    \A s \in Sessions :
       (pc[s] = "rel_remove" /\ pc'[s] = "idle" /\ res'.result # Success) =>
          LET d == DaemonOf(s)
              n == req[s].name
          IN
          /\ res'.kind = "response" /\ res'.sess = s
          /\ res'.cmd = Release /\ res'.name = n
          /\ res'.result = InternalError /\ res'.fserr
          /\ knownResources'[d][n] = NoHandle
          /\ \A h \in Handles : h[2] = n /\ DaemonOf(h[1]) = d =>
                resourceAcquiredBy'[h] = Nobody /\ hino'[h] = NoFile
          /\ path'[n] # NoFile => flock'[path'[n]] # d
          /\ LocksEntered(d)'
          /\ regVars' = regVars /\ fsVars' = fsVars
          /\ wlock'[d] = Free

\* A Release answered InternalError with the error of os.Remove and the
\* return that follows it, for the same name.
C20_Followed ==
    /\ Len(log.ev) = 2
    /\ IsResponse(log.ev[1], Release)
    /\ log.ev[1].result = InternalError
    /\ log.ev[1].reason \in {"remove: EIO", "remove: ENOENT"}
    /\ log.ev[2].kind = "response"
    /\ log.ev[2].name = log.ev[1].name

\* C20: a Release whose unlink fails is answered InternalError after the entry
\* is removed, the file closed and the advisory lock released, and it gives
\* the write lock back; the Release of the name by that session that follows
\* it is answered Failed, "lock not found", and the Acquire of the name by any
\* session that follows it is answered Success unless a system call fails.
C20_UnlinkFailure ==
    [][/\ C20_Step
       /\ (C20_Followed' /\ log'.ev[2].cmd = Release
             /\ log'.ev[2].sess = log'.ev[1].sess)
            => (log'.ev[2].result = Failed /\ log'.ev[2].reason = "lock not found")
       /\ (C20_Followed' /\ log'.ev[2].cmd = Acquire /\ ~log'.ev[2].fserr)
            => (log'.ev[2].result = Success /\ log'.ev[2].reason = "")]_vars

\* C20 witness: a1's Release of L1 failed at the unlink, and the Acquire of
\* L1 by b1, a session of the other daemon, succeeded on the file left behind.
C20_Witness ==
    /\ C20_Followed
    /\ log.ev[1].sess = "a1" /\ log.ev[1].name = L1
    /\ log.ev[2].cmd = Acquire /\ log.ev[2].sess = "b1"
    /\ log.ev[2].result = Success
    /\ Owns("b1", L1)
    /\ knownResources["A"][L1] = NoHandle

\* The error branch of acquire after f.Write: the handler of s had taken the
\* advisory lock and returns without inserting the entry.
C21_Step ==
    \A s \in Sessions :
       (pc[s] = "acq_write" /\ pc'[s] = "idle" /\ res'.result # Success) =>
          LET d == DaemonOf(s)
              n == req[s].name
              i == hino[f[s]]
          IN
          /\ res'.kind = "response" /\ res'.sess = s
          /\ res'.cmd = Acquire /\ res'.name = n
          /\ res'.result = InternalError /\ res'.fserr
          /\ knownResources' = knownResources
          /\ knownResources'[d][n] = NoHandle
          /\ resourceAcquiredBy' = resourceAcquiredBy
          /\ resourceAcquiredBy'[f[s]] = Nobody
          /\ i # NoFile /\ flock[i] = d
          /\ hino'[f[s]] = NoFile
          /\ flock'[i] = Unlocked
          /\ \A j \in Inodes : flock'[j] # d \/ j # i
          /\ \A j \in Inodes : j # i => flock'[j] = flock[j]
          /\ LocksEntered(d)'
          /\ path' = path
          /\ wlock'[d] = Free
          /\ granted' = granted

\* An Acquire answered InternalError with the error of the write and the
\* Acquire of the same name that follows it, no system call failing in it.
C21_Retried ==
    /\ Len(log.ev) = 2
    /\ IsResponse(log.ev[1], Acquire)
    /\ log.ev[1].result = InternalError /\ log.ev[1].reason = "write: EIO"
    /\ IsResponse(log.ev[2], Acquire)
    /\ log.ev[2].name = log.ev[1].name
    /\ ~log.ev[2].fserr

\* C21: an Acquire whose write of the marker fails is answered InternalError;
\* no entry is made for the name, the file acquire opened is closed, the
\* daemon no longer holds the advisory lock it had taken on it nor any lock
\* without an entry, and the write lock is given back; and the Acquire of the
\* name by any session that follows it succeeds unless a system call fails.
C21_WriteFailure ==
    [][/\ C21_Step
       /\ C21_Retried' =>
             (log'.ev[2].result = Success /\ log'.ev[2].reason = "")]_vars

\* C21 witness: a1's Acquire of L1 failed at the write and a2, a session of
\* the same daemon, then acquired L1.
C21_Witness ==
    /\ C21_Retried
    /\ log.ev[1].sess = "a1" /\ log.ev[1].name = L1
    /\ log.ev[2].sess = "a2" /\ log.ev[2].result = Success
    /\ Owns("a2", L1)
    /\ flock[path[L1]] = "A"

\* The positions of a handler between its Lock and its Unlock, and between
\* its RLock and its RUnlock where other handlers can step in between.
WriteHeld == {"acq_open", "acq_flock", "acq_write", "rel_unlock", "rel_remove",
              "disc_loop"}
ReadHeld == {"peek_probe", "peek_unprobe"}

\* The mutex of each daemon is held by exactly the handlers that are between
\* taking it and giving it back, in the mode they took it.
C22_Discipline ==
    /\ \A s \in Sessions :
          /\ pc[s] # "panic"
          /\ wlock[DaemonOf(s)] = s <=> pc[s] \in WriteHeld
          /\ s \in rlock[DaemonOf(s)] <=> pc[s] \in ReadHeld
    /\ \A d \in Daemons :
          /\ wlock[d] \in {Free} \cup {s \in Sessions : DaemonOf(s) = d}
          /\ rlock[d] \subseteq {s \in Sessions : DaemonOf(s) = d}
          /\ wlock[d] # Free => rlock[d] = {}

\* C22: a handler holds the mutex exactly while it is between taking it and
\* giving it back, in the mode it took it: a session whose call has returned
\* holds nothing, nobody else's hold is ever given up, writers exclude
\* readers and each other; and every call that has started returns.
C22_RunsToCompletion ==
    /\ []C22_Discipline
    /\ \A s \in {"a1", "a2"} : (pc[s] # "idle") ~> (pc[s] = "idle")

\* C22 witness: a1's release holds the write lock at the unlink while a2's
\* peek has arrived and waits for the mutex.
C22_Witness ==
    /\ pc["a1"] = "rel_remove" /\ wlock["A"] = "a1"
    /\ pc["a2"] = "peek_rlock"
    /\ rlock["A"] = {}

\* Session t holds name n or is taking or giving it up with the advisory lock
\* in hand: it owns the entry, or its acquire has the lock and is at the write.
HoldsOrTakes(t, n) ==
    \/ Owns(t, n)
    \/ pc[t] = "acq_write" /\ req[t].name = n

C23_Step ==
    \A s \in Sessions :
       (/\ pc[s] = "acq_flock" /\ pc'[s] = "idle"
        /\ res'.result = Failed
        /\ res'.reason = "resource acquired by different process")
          => \E t \in Sessions :
                /\ DaemonOf(t) # DaemonOf(s)
                /\ HoldsOrTakes(t, req[s].name)

\* C23: an Acquire is answered Failed "resource acquired by different
\* process" only when, at its lock attempt, a session of another daemon holds
\* the name or is acquiring it with the advisory lock already taken; the probe
\* of a Peek on another daemon never makes the Acquire of a name nobody holds
\* fail.
C23_FailedOnlyIfHeld == [][C23_Step]_vars

\* ----------------------------------------------------------- sanity checks

TypeOK ==
    /\ path \in [LockNames -> Inodes \cup {NoFile}]
    /\ flock \in [Inodes -> Daemons \cup {Unlocked}]
    /\ \A d \in Daemons : wlock[d] # Free => rlock[d] = {}
    /\ \A s \in Sessions : pc[s] # "panic"

PoolOK == FreeInodes # {}

====
